---------------------------- MODULE Spec2Model ----------------------------
(***************************************************************************)
(* Client-side state machines of the supermarket data hub frontend:        *)
(*   - App + QueryView: the multi-turn query session (Transcript =         *)
(*     history, Context = conversationHistory, busy = loading);            *)
(*   - ControlPanel: the two job triggers, their revert timers and the     *)
(*     recurring health poll.                                              *)
(* The JavaScript runtime runs one callback at a time, so every handler    *)
(* and every continuation after an await is one atomic action.  React      *)
(* flushes the state updates of a handler before the next event is         *)
(* dispatched, so a handler always reads the state left by the previous    *)
(* one.                                                                    *)
(*                                                                         *)
(* Text is a sequence of string tokens (a token stands for one or more     *)
(* characters); server-supplied strings are TLA+ strings.  An optional     *)
(* JavaScript value (undefined / null / absent) is None, a present one is  *)
(* Some(v).                                                                *)
(***************************************************************************)
EXTENDS Integers, Sequences, FiniteSets, TLC

VARIABLES
    \* ---- QueryView / App ----
    question,             \* QueryView useState(''): the input box
    loading,              \* QueryView useState(false): the busy flag
    history,              \* App useState([]): the Transcript
    conversationHistory,  \* App useState([]): the Context
    queryRequests,        \* POST /query requests in flight
    \* ---- ControlPanel ----
    phase,                \* "new" | "mounted" | "unmounted"
    health,               \* useState(null): the Health Snapshot
    status,               \* scrapeStatus / importStatus
    message,              \* useState(''): the shared message box
    jobRequests,          \* POST /scrape, POST /import requests in flight
    revertTimers,         \* pending setTimeout(..., 3000) callbacks
    healthRequests,       \* GET /health requests in flight
    intervalTimers,       \* live setInterval(checkHealth, 10000) timers
    \* ---- QueryView: the cell being rendered ----
    cell,                 \* a cell of a row of item.data
    colName,              \* item.columns[j]
    cellValue,            \* the text put into the <td>
    \* ---- observation ----
    lastEvent             \* the callback that ran last, with its input

queryVars == <<question, loading, history, conversationHistory, queryRequests>>
panelVars == <<phase, health, status, message, jobRequests, revertTimers,
               healthRequests, intervalTimers>>
renderVars == <<cell, colName, cellValue>>
vars == <<queryVars, panelVars, renderVars, lastEvent>>

---------------------------------------------------------------------------
(* Bounds of the model *)

\* Longest Transcript the model lets grow (a submit needs room for 2 entries).
MaxHistory == 4
\* Most job start requests and revert timers pending at once, both job
\* kinds together.
MaxPending == 3
\* Most GET /health requests in flight at once.
MaxHealthInflight == 1

---------------------------------------------------------------------------
(* JavaScript values *)

None == [def |-> FALSE]
Some(v) == [def |-> TRUE, val |-> v]

\* Truthiness of an optional string: undefined and '' are falsy.
Truthy(o) == o.def /\ o.val # ""

\* a || b || c on optional strings, c being a non-empty literal.
OrElse(a, b) == IF Truthy(a) THEN a ELSE b

\* obj.f of a record that may lack the field (undefined).
Field(obj, f) == IF f \in DOMAIN obj THEN obj[f] ELSE None

Whitespace == {" ", "\t", "\n"}

RECURSIVE TrimStart(_)
TrimStart(s) ==
    IF s # <<>> /\ Head(s) \in Whitespace THEN TrimStart(Tail(s)) ELSE s

RECURSIVE TrimEnd(_)
TrimEnd(s) ==
    IF s # <<>> /\ s[Len(s)] \in Whitespace
    THEN TrimEnd(SubSeq(s, 1, Len(s) - 1))
    ELSE s

\* String.prototype.trim
Trim(s) == TrimEnd(TrimStart(s))

\* Template-literal interpolation of an optional string.
Interpolate(o) == IF o.def THEN o.val ELSE "undefined"

---------------------------------------------------------------------------
(* QueryView + App: inputs *)

\* SUGGESTIONS, each shown through t(`suggestions.${key}`), a non-blank text.
SUGGESTIONS == {<<"cheapestMilk">>, <<"pastaPrices">>, <<"tlvStores">>}

\* What the user may type into the input box.
TypedTexts == {<<>>, <<" ">>, <<"milk">>, <<" ", "milk", " ">>}

Cell(v) == [t |-> "string", v |-> v]

\* Bodies of a 2xx answer of POST /query: {sql, data, columns, error?}, a
\* payload with an error reported in the body, and a body with no field.
QueryPayloads ==
    { [sql |-> Some("SELECT 1"), data |-> Some(<< <<Cell("Store A")>> >>),
       columns |-> Some(<<"StoreName">>), error |-> None],
      [sql |-> Some("SELECT 1"), data |-> Some(<<>>),
       columns |-> Some(<<"StoreName">>), error |-> None],
      [sql |-> Some("SELECT 1"), data |-> Some(<<>>),
       columns |-> Some(<<>>), error |-> Some("bad sql")],
      [sql |-> None, data |-> None, columns |-> None, error |-> None] }

\* How the awaited axios.post(`${API_URL}/query`) settles: fulfilled with a
\* body (or with a null body), or rejected with an error that may carry
\* response.data.detail and a message.
QueryOutcomes ==
    { [kind |-> "fulfilled", body |-> Some(p), detail |-> None, message |-> None]
        : p \in QueryPayloads }
    \cup
    { [kind |-> "fulfilled", body |-> None, detail |-> None, message |-> None] }
    \cup
    { [kind |-> "rejected", body |-> None, detail |-> d, message |-> m]
        : <<d, m>> \in
            { <<Some("query failed"), Some("Request failed with status code 500")>>,
              <<Some(""), Some("Request failed with status code 400")>>,
              <<None, Some("Network Error")>>,
              <<None, Some("")>>,
              <<None, None>> } }

---------------------------------------------------------------------------
(* QueryView + App: operations *)

QuestionEntry(userQuestion) == [type |-> "question", content |-> userQuestion]

\* The entry appended in the try block.
AnswerEntry(userQuestion, data) ==
    [type |-> "answer", question |-> userQuestion, sql |-> data.sql,
     data |-> data.data, columns |-> data.columns, error |-> data.error]

\* Variant: the transport description is preferred to the server detail.
QueryErrorMessage_MessageFirst(error) ==
    OrElse(error.message, OrElse(error.detail, Some("Failed to process query")))

\* error.response?.data?.detail || error.message || 'Failed to process query'
QueryErrorMessage(error) ==
    OrElse(error.detail, OrElse(error.message, Some("Failed to process query")))

\* The entry appended in the catch block.
ErrorEntry(error) == [type |-> "answer", error |-> QueryErrorMessage(error)]

\* Variant: only the user turn is appended.
ContextTurns_UserOnly(userQuestion, sqlGenerated) ==
    << [role |-> "user", content |-> userQuestion] >>

\* Variant: the user turn holds the trimmed question.
ContextTurns_TrimsQuestion(userQuestion, sqlGenerated) ==
    << [role |-> "user", content |-> Trim(userQuestion)],
       [role |-> "assistant",
        content |-> <<"I searched for: ">> \o userQuestion
                    \o <<". The SQL query was: ", Interpolate(sqlGenerated)>>] >>

\* The pair appended to the Context in the try block.
ContextTurns(userQuestion, sqlGenerated) ==
    << [role |-> "user", content |-> userQuestion],
       [role |-> "assistant",
        content |-> <<"I searched for: ">> \o userQuestion
                    \o <<". The SQL query was: ", Interpolate(sqlGenerated)>>] >>

\* The error caught by handleSubmit: the rejection of the request, or the
\* TypeError of reading response.data.sql off a null body.
CaughtError(outcome) ==
    IF outcome.kind = "rejected"
    THEN [detail |-> outcome.detail, message |-> outcome.message]
    ELSE [detail |-> None,
          message |-> Some("Cannot read properties of null (reading 'sql')")]

\* Variant: the button is disabled on a blank question only.
SubmitDisabled_IgnoresLoading == Trim(question) = <<>>

\* disabled={loading || !question.trim()} of the submit button; the input is
\* disabled={loading}, so the form has no other way to be submitted.
SubmitDisabled == loading \/ Trim(question) = <<>>

\* onChange of the input (disabled while loading).
ChangeQuestion(text) ==
    /\ ~loading
    /\ question' = text
    /\ lastEvent' = [op |-> "change"]
    /\ UNCHANGED <<loading, history, conversationHistory, queryRequests, panelVars, renderVars>>

\* onClick of a suggestion chip (rendered while the Transcript is empty).
ClickSuggestion(text) ==
    /\ history = <<>>
    /\ question' = text
    /\ lastEvent' = [op |-> "suggest"]
    /\ UNCHANGED <<loading, history, conversationHistory, queryRequests, panelVars, renderVars>>

\* Variant: handleSubmit without the optimistic question entry.
HandleSubmit_NoQuestionEntry ==
    IF Trim(question) = <<>>
    THEN /\ lastEvent' = [op |-> "submit", sent |-> FALSE]
         /\ UNCHANGED <<queryVars, panelVars, renderVars>>
    ELSE /\ question' = <<>>
         /\ loading' = TRUE
         /\ queryRequests' = Append(queryRequests,
                [question |-> question,
                 conversation_history |-> conversationHistory])
         /\ lastEvent' = [op |-> "submit", sent |-> TRUE]
         /\ UNCHANGED <<history, conversationHistory, panelVars, renderVars>>

\* Variant: handleSubmit without setLoading(true).
HandleSubmit_NoLoading ==
    IF Trim(question) = <<>>
    THEN /\ lastEvent' = [op |-> "submit", sent |-> FALSE]
         /\ UNCHANGED <<queryVars, panelVars, renderVars>>
    ELSE /\ question' = <<>>
         /\ history' = Append(history, QuestionEntry(question))
         /\ queryRequests' = Append(queryRequests,
                [question |-> question,
                 conversation_history |-> conversationHistory])
         /\ lastEvent' = [op |-> "submit", sent |-> TRUE]
         /\ UNCHANGED <<loading, conversationHistory, panelVars, renderVars>>

\* handleSubmit up to its await: the guard, the optimistic question entry and
\* the request carrying the Context of the current render.
HandleSubmit ==
    IF Trim(question) = <<>>
    THEN /\ lastEvent' = [op |-> "submit", sent |-> FALSE]
         /\ UNCHANGED <<queryVars, panelVars, renderVars>>
    ELSE /\ question' = <<>>
         /\ loading' = TRUE
         /\ history' = Append(history, QuestionEntry(question))
         /\ queryRequests' = Append(queryRequests,
                [question |-> question,
                 conversation_history |-> conversationHistory])
         /\ lastEvent' = [op |-> "submit", sent |-> TRUE]
         /\ UNCHANGED <<conversationHistory, panelVars, renderVars>>

\* The user presses the submit button or Enter: the browser dispatches the
\* form's submit event only while the button is enabled.
Submit ==
    /\ Len(history) + 2 <= MaxHistory
    /\ IF SubmitDisabled
       THEN /\ lastEvent' = [op |-> "submit", sent |-> FALSE]
            /\ UNCHANGED <<queryVars, panelVars, renderVars>>
       ELSE HandleSubmit

RemoveAt(s, i) == SubSeq(s, 1, i - 1) \o SubSeq(s, i + 1, Len(s))

\* Variant: the catch block appends no entry.
QueryDone_ErrorsDropped(i, outcome) ==
    /\ i \in 1..Len(queryRequests)
    /\ LET userQuestion == queryRequests[i].question IN
       IF outcome.kind = "fulfilled" /\ outcome.body.def
       THEN /\ history' = Append(history,
                                 AnswerEntry(userQuestion, outcome.body.val))
            /\ conversationHistory' =
                   conversationHistory
                   \o ContextTurns(userQuestion, outcome.body.val.sql)
       ELSE UNCHANGED <<history, conversationHistory>>
    /\ loading' = FALSE
    /\ queryRequests' = RemoveAt(queryRequests, i)
    /\ lastEvent' = [op |-> "queryDone", outcome |-> outcome]
    /\ UNCHANGED <<question, panelVars, renderVars>>

\* Variant: a response that finds the Transcript cleared is dropped.
QueryDone_DiscardsStale(i, outcome) ==
    /\ i \in 1..Len(queryRequests)
    /\ LET userQuestion == queryRequests[i].question IN
       IF history = <<>>
       THEN UNCHANGED <<history, conversationHistory>>
       ELSE IF outcome.kind = "fulfilled" /\ outcome.body.def
       THEN /\ history' = Append(history,
                                 AnswerEntry(userQuestion, outcome.body.val))
            /\ conversationHistory' =
                   conversationHistory
                   \o ContextTurns(userQuestion, outcome.body.val.sql)
       ELSE /\ history' = Append(history, ErrorEntry(CaughtError(outcome)))
            /\ UNCHANGED conversationHistory
    /\ loading' = FALSE
    /\ queryRequests' = RemoveAt(queryRequests, i)
    /\ lastEvent' = [op |-> "queryDone", outcome |-> outcome]
    /\ UNCHANGED <<question, panelVars, renderVars>>

\* handleSubmit after its await: try, catch and finally.
QueryDone(i, outcome) ==
    /\ i \in 1..Len(queryRequests)
    /\ LET userQuestion == queryRequests[i].question IN
       IF outcome.kind = "fulfilled" /\ outcome.body.def
       THEN /\ history' = Append(history,
                                 AnswerEntry(userQuestion, outcome.body.val))
            /\ conversationHistory' =
                   conversationHistory
                   \o ContextTurns(userQuestion, outcome.body.val.sql)
       ELSE /\ history' = Append(history, ErrorEntry(CaughtError(outcome)))
            /\ UNCHANGED conversationHistory
    /\ loading' = FALSE
    /\ queryRequests' = RemoveAt(queryRequests, i)
    /\ lastEvent' = [op |-> "queryDone", outcome |-> outcome]
    /\ UNCHANGED <<question, panelVars, renderVars>>

\* Variant: the new-conversation handler also clears the busy flag.
HandleNewConversation_ClearsLoading ==
    /\ Len(history) > 0
    /\ history' = <<>>
    /\ conversationHistory' = <<>>
    /\ loading' = FALSE
    /\ lastEvent' = [op |-> "reset", cleared |-> <<Len(history), Len(conversationHistory)>>]
    /\ UNCHANGED <<question, queryRequests, panelVars, renderVars>>

\* Variant: the new-conversation handler clears the Transcript only.
HandleNewConversation_KeepsContext ==
    /\ Len(history) > 0
    /\ history' = <<>>
    /\ lastEvent' = [op |-> "reset", cleared |-> <<Len(history), Len(conversationHistory)>>]
    /\ UNCHANGED <<question, loading, conversationHistory, queryRequests, panelVars, renderVars>>

\* App.handleNewConversation (the button is rendered while history.length > 0).
HandleNewConversation ==
    /\ Len(history) > 0
    /\ history' = <<>>
    /\ conversationHistory' = <<>>
    /\ lastEvent' = [op |-> "reset", cleared |-> <<Len(history), Len(conversationHistory)>>]
    /\ UNCHANGED <<question, loading, queryRequests, panelVars, renderVars>>

QueryNext ==
    \/ \E text \in TypedTexts : ChangeQuestion(text)
    \/ \E text \in SUGGESTIONS : ClickSuggestion(text)
    \/ Submit
    \/ \E i \in 1..Len(queryRequests), outcome \in QueryOutcomes : QueryDone(i, outcome)
    \/ HandleNewConversation

---------------------------------------------------------------------------
(* ControlPanel: inputs *)

\* The two job kinds: scrapeStatus and importStatus.
Jobs == {"scrape", "import"}

\* What POST /scrape and POST /import answer when the start is accepted.
StartedMessage(k) == IF k = "scrape" THEN "Scraper started" ELSE "Import started"

\* How the awaited axios.post of a job start settles: fulfilled with
\* {message}, or rejected with an error whose response body may carry detail.
JobOutcomes(k) ==
    { [ok |-> TRUE, message |-> StartedMessage(k), detail |-> None] }
    \cup
    { [ok |-> FALSE, message |-> "", detail |-> d]
        : d \in {None, Some(""), Some("scraper busy")} }

\* How the awaited axios.get(`${API_URL}/health`) settles: fulfilled with
\* {status: "ok"}, or rejected with an error carrying a message.
HealthOutcomes ==
    { [ok |-> TRUE, data |-> [status |-> "ok"], message |-> ""] }
    \cup
    { [ok |-> FALSE, data |-> [status |-> "ok"], message |-> m]
        : m \in {"Network Error", "Request failed with status code 503"} }

---------------------------------------------------------------------------
(* ControlPanel: operations *)

\* The literal after || in the catch block of triggerScrape / triggerImport.
JobFallback(k) ==
    IF k = "scrape" THEN "Failed to start scraper" ELSE "Failed to start importer"

\* Variant: the catch block shows the detail with no fallback.
FailureMessage_NoFallback(k, detail) == Interpolate(detail)

\* error.response?.data?.detail || 'Failed to start ...'
FailureMessage(k, detail) == OrElse(detail, Some(JobFallback(k))).val

\* Variant: both handlers call setScrapeStatus.
SetStatus_AlwaysScrape(k, value) == [status EXCEPT !["scrape"] = value]

\* setScrapeStatus(value) in triggerScrape, setImportStatus(value) in
\* triggerImport.
SetStatus(k, value) == [status EXCEPT ![k] = value]

\* Every pending revert timer of job kind k now belongs to a superseded
\* trigger of k.
Superseded(timers, k) ==
    [i \in 1..Len(timers) |->
        IF timers[i].job = k THEN [job |-> k, stale |-> TRUE] ELSE timers[i]]

\* Job start requests in flight and revert timers pending.
Pending ==
    jobRequests["scrape"].cur + jobRequests["scrape"].old
    + jobRequests["import"].cur + jobRequests["import"].old
    + Len(revertTimers)

\* useEffect on mount: checkHealth() at once, then setInterval(checkHealth).
Mount ==
    /\ phase = "new"
    /\ phase' = "mounted"
    /\ healthRequests' = healthRequests + 1
    /\ intervalTimers' = intervalTimers + 1
    /\ lastEvent' = [op |-> "mount"]
    /\ UNCHANGED <<health, status, message, jobRequests, revertTimers, queryVars, renderVars>>

\* Variant: the effect returns no cleanup.
Unmount_NoClearInterval ==
    /\ phase = "mounted"
    /\ phase' = "unmounted"
    /\ lastEvent' = [op |-> "unmount"]
    /\ UNCHANGED <<health, status, message, jobRequests, revertTimers,
                   healthRequests, intervalTimers, queryVars, renderVars>>

\* The cleanup of the effect: clearInterval(interval).
Unmount ==
    /\ phase = "mounted"
    /\ phase' = "unmounted"
    /\ intervalTimers' = intervalTimers - 1
    /\ lastEvent' = [op |-> "unmount"]
    /\ UNCHANGED <<health, status, message, jobRequests, revertTimers,
                   healthRequests, queryVars, renderVars>>

\* Variant: the tick polls only while the last poll did not fail.
IntervalTick_StopsAfterError ==
    /\ intervalTimers > 0
    /\ ~(health.def /\ health.val.status = "error")
    /\ healthRequests < MaxHealthInflight
    /\ healthRequests' = healthRequests + 1
    /\ lastEvent' = [op |-> "healthTick"]
    /\ UNCHANGED <<phase, health, status, message, jobRequests, revertTimers,
                   intervalTimers, queryVars, renderVars>>

\* A tick of the interval: checkHealth up to its await.
IntervalTick ==
    /\ intervalTimers > 0
    /\ healthRequests < MaxHealthInflight
    /\ healthRequests' = healthRequests + 1
    /\ lastEvent' = [op |-> "healthTick"]
    /\ UNCHANGED <<phase, health, status, message, jobRequests, revertTimers,
                   intervalTimers, queryVars, renderVars>>

\* Variant: checkHealth without its catch block.
HealthAfter_NoCatch(outcome) ==
    IF outcome.ok THEN Some(outcome.data) ELSE health

\* The value checkHealth gives setHealth: response.data, or in the catch
\* block {status: 'error', error: error.message}.
HealthAfter(outcome) ==
    IF outcome.ok
    THEN Some(outcome.data)
    ELSE Some([status |-> "error", error |-> outcome.message])

\* checkHealth after its await.  (A setter called after the unmount has no
\* rendered effect; the model applies it to the state no render reads.)
HealthDone(outcome) ==
    /\ healthRequests > 0
    /\ healthRequests' = healthRequests - 1
    /\ health' = HealthAfter(outcome)
    /\ lastEvent' = [op |-> "healthDone", outcome |-> outcome, before |-> health]
    /\ UNCHANGED <<phase, status, message, jobRequests, revertTimers,
                   intervalTimers, queryVars, renderVars>>

\* Variant: the trigger leaves the message box as it is.
Trigger_KeepsMessage(k) ==
    /\ phase = "mounted"
    /\ status[k] # "loading"
    /\ Pending < MaxPending
    /\ status' = SetStatus(k, "loading")
    /\ jobRequests' = [jobRequests EXCEPT
                          ![k] = [cur |-> 1, old |-> @.old + @.cur]]
    /\ revertTimers' = Superseded(revertTimers, k)
    /\ lastEvent' = [op |-> "trigger", job |-> k]
    /\ UNCHANGED <<phase, health, message, healthRequests, intervalTimers,
                   queryVars, renderVars>>

\* triggerScrape / triggerImport up to the await; the button is
\* disabled={status === 'loading'}.  The requests and timers of earlier
\* triggers of k stay pending: nothing cancels them.
Trigger(k) ==
    /\ phase = "mounted"
    /\ status[k] # "loading"
    /\ Pending < MaxPending
    /\ status' = SetStatus(k, "loading")
    /\ message' = ""
    /\ jobRequests' = [jobRequests EXCEPT
                          ![k] = [cur |-> 1, old |-> @.old + @.cur]]
    /\ revertTimers' = Superseded(revertTimers, k)
    /\ lastEvent' = [op |-> "trigger", job |-> k]
    /\ UNCHANGED <<phase, health, healthRequests, intervalTimers, queryVars, renderVars>>

TriggerScrape == Trigger("scrape")

TriggerImport == Trigger("import")

\* Variant: the catch block sets no revert timer.
JobDone_NoTimerOnFailure(k, gen, outcome) ==
    /\ jobRequests[k][gen] > 0
    /\ jobRequests' = [jobRequests EXCEPT ![k][gen] = @ - 1]
    /\ message' = IF outcome.ok
                  THEN outcome.message
                  ELSE FailureMessage(k, outcome.detail)
    /\ status' = SetStatus(k, IF outcome.ok THEN "success" ELSE "error")
    /\ revertTimers' = IF outcome.ok
                       THEN Append(revertTimers, [job |-> k, stale |-> gen = "old"])
                       ELSE revertTimers
    /\ lastEvent' = [op |-> "jobDone", job |-> k, stale |-> gen = "old",
                     outcome |-> outcome]
    /\ UNCHANGED <<phase, health, healthRequests, intervalTimers, queryVars, renderVars>>

\* triggerScrape / triggerImport after the await, for the request of the
\* latest trigger (gen = "cur") or of a superseded one (gen = "old"): the
\* try block or the catch block, each ending in setTimeout(..., 3000).
JobDone(k, gen, outcome) ==
    /\ jobRequests[k][gen] > 0
    /\ jobRequests' = [jobRequests EXCEPT ![k][gen] = @ - 1]
    /\ message' = IF outcome.ok
                  THEN outcome.message
                  ELSE FailureMessage(k, outcome.detail)
    /\ status' = SetStatus(k, IF outcome.ok THEN "success" ELSE "error")
    /\ revertTimers' = Append(revertTimers, [job |-> k, stale |-> gen = "old"])
    /\ lastEvent' = [op |-> "jobDone", job |-> k, stale |-> gen = "old",
                     outcome |-> outcome]
    /\ UNCHANGED <<phase, health, healthRequests, intervalTimers, queryVars, renderVars>>

\* Variant: the timer callback also empties the message box.
RevertFire_ClearsMessage ==
    /\ revertTimers # <<>>
    /\ status' = SetStatus(Head(revertTimers).job, "idle")
    /\ message' = ""
    /\ revertTimers' = Tail(revertTimers)
    /\ lastEvent' = [op |-> "revert", job |-> Head(revertTimers).job,
                     stale |-> Head(revertTimers).stale]
    /\ UNCHANGED <<phase, health, jobRequests, healthRequests,
                   intervalTimers, queryVars, renderVars>>

\* The callback of the oldest pending setTimeout: all delays are 3000 ms, so
\* the timers fire in the order they were set.
RevertFire ==
    /\ revertTimers # <<>>
    /\ status' = SetStatus(Head(revertTimers).job, "idle")
    /\ revertTimers' = Tail(revertTimers)
    /\ lastEvent' = [op |-> "revert", job |-> Head(revertTimers).job,
                     stale |-> Head(revertTimers).stale]
    /\ UNCHANGED <<phase, health, message, jobRequests, healthRequests,
                   intervalTimers, queryVars, renderVars>>

JobsNext ==
    \/ Mount
    \/ TriggerScrape
    \/ TriggerImport
    \/ \E k \in Jobs, gen \in {"cur", "old"} :
           \E outcome \in JobOutcomes(k) : JobDone(k, gen, outcome)
    \/ RevertFire

PanelNext ==
    \/ Mount
    \/ Unmount
    \/ IntervalTick
    \/ \E outcome \in HealthOutcomes : HealthDone(outcome)
    \/ TriggerScrape
    \/ TriggerImport
    \/ \E k \in Jobs, gen \in {"cur", "old"} :
           \E outcome \in JobOutcomes(k) : JobDone(k, gen, outcome)
    \/ RevertFire

---------------------------------------------------------------------------
(* QueryView: rendering of an answer entry *)

\* Texts are sequences of tokens: a cell's own text is one token, the text a
\* conversion produces is spelled character by character.

\* Cells of a JSON row: null, a number, a string or a boolean.  A number is
\* held in thousandths (n = 6900 is 6.9).
NullCell == [t |-> "null"]
NumberCell(n) == [t |-> "number", n |-> n]
BooleanCell(b) == [t |-> "boolean", b |-> b]

PriceColumns == {"ItemPrice", "price"}
DateColumns == {"LastUpdate", "last_update"}

\* The timestamp texts of the model that `new Date(text)` can parse, with the
\* fields date-fns reads off the Date (the viewer's time zone is taken as
\* the one the text was written in).
Timestamps ==
    [ text \in {"2025-12-06T09:05:00", "2024-01-31T23:59:59"} |->
        IF text = "2025-12-06T09:05:00"
        THEN [year |-> 2025, month |-> 12, day |-> 6, hour |-> 9, minute |-> 5]
        ELSE [year |-> 2024, month |-> 1, day |-> 31, hour |-> 23, minute |-> 59] ]

\* The inputs of the formatter.
Cells ==
    {NullCell}
    \cup {NumberCell(n) : n \in {0, 125, 1996, 6900, 7250, 12000}}
    \cup {Cell(v) : v \in {"Store A", "", "cheap", "soon",
                           "2025-12-06T09:05:00", "2024-01-31T23:59:59"}}
    \cup {BooleanCell(b) : b \in BOOLEAN}

ColumnNames ==
    {"ItemPrice", "price", "LastUpdate", "last_update", "StoreName", "ItemName"}

DigitChar(d) == <<"0", "1", "2", "3", "4", "5", "6", "7", "8", "9">>[d + 1]

\* The decimal digits of a natural number.
RECURSIVE Digits(_)
Digits(k) ==
    IF k < 10 THEN <<DigitChar(k)>>
    ELSE Digits(k \div 10) \o <<DigitChar(k % 10)>>

\* k written with at least w digits, zero-padded on the left.
RECURSIVE Pad(_, _)
Pad(k, w) ==
    IF w <= 1 THEN Digits(k)
    ELSE IF Len(Digits(k)) >= w THEN Digits(k)
    ELSE <<"0">> \o Pad(k, w - 1)

RECURSIVE StripZeros(_)
StripZeros(s) ==
    IF s # <<>> /\ s[Len(s)] = "0" THEN StripZeros(SubSeq(s, 1, Len(s) - 1))
    ELSE s

\* Number.prototype.toFixed(2) of a non-negative number: the nearest
\* hundredth, the larger one on a tie.
ToFixed2(n) ==
    LET h == (n + 5) \div 10
    IN Digits(h \div 100) \o <<".">> \o Pad(h % 100, 2)

\* String(cell).
String(c) ==
    CASE c.t = "null"    -> <<"null">>
      [] c.t = "string"  -> <<c.v>>
      [] c.t = "boolean" -> IF c.b THEN <<"true">> ELSE <<"false">>
      [] c.t = "number"  ->
            IF c.n % 1000 = 0 THEN Digits(c.n \div 1000)
            ELSE Digits(c.n \div 1000) \o <<".">>
                 \o StripZeros(Pad(c.n % 1000, 3))

\* The fields of the Date of ms milliseconds after the epoch, for a moment
\* within January 1970 (UTC).
EpochDate(ms) ==
    LET minutes == ms \div 60000
    IN [year |-> 1970, month |-> 1, day |-> 1 + minutes \div 1440,
        hour |-> (minutes % 1440) \div 60, minute |-> minutes % 60]

\* new Date(cell): None stands for the Invalid Date.
NewDate(c) ==
    CASE c.t = "null"    -> Some(EpochDate(0))
      [] c.t = "number"  -> Some(EpochDate(c.n \div 1000))
      [] c.t = "boolean" -> Some(EpochDate(IF c.b THEN 1 ELSE 0))
      [] c.t = "string"  -> IF c.v \in DOMAIN Timestamps
                            THEN Some(Timestamps[c.v]) ELSE None

\* date-fns format(date, 'dd/MM/yyyy HH:mm') of a valid date.
FormatDate(d) ==
    Pad(d.day, 2) \o <<"/">> \o Pad(d.month, 2) \o <<"/">> \o Pad(d.year, 4)
    \o <<" ">> \o Pad(d.hour, 2) \o <<":">> \o Pad(d.minute, 2)

\* Variant: the date branch is taken before the null test.
FormatCell_DateBeforeNull(c, col) ==
    LET isPrice == col \in PriceColumns
        isDate  == col \in DateColumns
    IN IF isDate
       THEN IF NewDate(c).def THEN FormatDate(NewDate(c).val) ELSE String(c)
       ELSE IF c.t = "null" THEN <<"N/A">>
       ELSE IF isPrice /\ c.t = "number" THEN ToFixed2(c.n)
       ELSE String(c)

\* The body of row.map((cell, j) => ...): the text of one cell.  format
\* throws on the Invalid Date and the catch block takes String(cell).
FormatCell(c, col) ==
    LET isPrice == col \in PriceColumns
        isDate  == col \in DateColumns
    IN IF c.t = "null" THEN <<"N/A">>
       ELSE IF isPrice /\ c.t = "number" THEN ToFixed2(c.n)
       ELSE IF isDate
       THEN IF NewDate(c).def THEN FormatDate(NewDate(c).val) ELSE String(c)
       ELSE String(c)

\* One cell of a table is rendered.
RenderCell ==
    /\ ~cellValue.def
    /\ cellValue' = Some(FormatCell(cell, colName))
    /\ lastEvent' = [op |-> "renderCell"]
    /\ UNCHANGED <<cell, colName, queryVars, panelVars>>

\* What the message-content of an answer entry shows.
RenderAnswer(item) ==
    LET data == Field(item, "data")
    IN IF Truthy(Field(item, "error")) THEN "error-box"
       ELSE IF data.def /\ Len(data.val) > 0 THEN "results-table"
       ELSE IF data.def /\ Len(data.val) = 0 THEN "info-box"
       ELSE "nothing"

---------------------------------------------------------------------------
(* Initial state: every useState initial value, nothing in flight *)

Init ==
    /\ question = <<>>
    /\ loading = FALSE
    /\ history = <<>>
    /\ conversationHistory = <<>>
    /\ queryRequests = <<>>
    /\ phase = "new"
    /\ health = None
    /\ status = [k \in Jobs |-> "idle"]
    /\ message = ""
    /\ jobRequests = [k \in Jobs |-> [cur |-> 0, old |-> 0]]
    /\ revertTimers = <<>>
    /\ healthRequests = 0
    /\ intervalTimers = 0
    /\ cell = NullCell
    /\ colName = "StoreName"
    /\ cellValue = None
    /\ lastEvent = [op |-> "init"]

---------------------------------------------------------------------------
(* Specifications *)

Next == QueryNext \/ PanelNext \/ RenderCell

\* Both components side by side.
Spec == Init /\ [][Next]_vars

\* App with QueryView alone: the ControlPanel state stays initial.
QuerySpec == Init /\ [][QueryNext]_vars

\* ControlPanel alone: the QueryView state stays initial.
PanelSpec == Init /\ [][PanelNext]_vars

\* The job triggers of a mounted ControlPanel, without the health poll
\* (which shares no state with them), under the scheduling the runtime
\* gives: every start request in flight eventually settles and the oldest
\* pending timer eventually fires.
JobsFairSpec ==
    /\ Init
    /\ [][JobsNext]_vars
    /\ \A k \in Jobs, gen \in {"cur", "old"} :
           WF_vars(\E outcome \in JobOutcomes(k) : JobDone(k, gen, outcome))
    /\ WF_vars(RevertFire)

\* The formatter alone, over every cell and column name of the model.
FormatInit ==
    /\ question = <<>>
    /\ loading = FALSE
    /\ history = <<>>
    /\ conversationHistory = <<>>
    /\ queryRequests = <<>>
    /\ phase = "new"
    /\ health = None
    /\ status = [k \in Jobs |-> "idle"]
    /\ message = ""
    /\ jobRequests = [k \in Jobs |-> [cur |-> 0, old |-> 0]]
    /\ revertTimers = <<>>
    /\ healthRequests = 0
    /\ intervalTimers = 0
    /\ cell \in Cells
    /\ colName \in ColumnNames
    /\ cellValue = None
    /\ lastEvent = [op |-> "init"]

FormatSpec == FormatInit /\ [][RenderCell]_vars

---------------------------------------------------------------------------
(* Properties of the query session *)

Last(s) == s[Len(s)]

\* C1: a submit of a non-blank question made while not busy appends exactly
\* the question entry, sets busy and sends one request; the completion of a
\* request, fulfilled or rejected, appends exactly one answer entry after
\* the question (or to the Transcript a reset emptied meanwhile) and clears
\* busy; nothing else appends to the Transcript.
C1_SubmitCycle ==
    [][ /\ (lastEvent'.op = "submit" /\ ~loading /\ Trim(question) # <<>>)
            => /\ history' = Append(history, QuestionEntry(question))
               /\ Len(queryRequests') = Len(queryRequests) + 1
               /\ loading'
        /\ (Len(queryRequests') < Len(queryRequests))
            => /\ Len(history') = Len(history) + 1
               /\ SubSeq(history', 1, Len(history)) = history
               /\ Last(history').type = "answer"
               /\ (history = <<>> \/ Last(history).type = "question")
               /\ ~loading'
        /\ (Len(history') > Len(history))
            => /\ Len(history') = Len(history) + 1
               /\ lastEvent'.op \in {"submit", "queryDone"}
      ]_vars

\* C1 witness: a cycle that failed has completed: question, then an answer
\* carrying the error, and busy is false again.
C1_Witness ==
    /\ lastEvent.op = "queryDone"
    /\ lastEvent.outcome.kind = "rejected"
    /\ Len(history) = 2
    /\ history[1].type = "question"
    /\ history[2].type = "answer"
    /\ ~loading

\* C2: a submit attempted while busy, or with a blank question, sends no
\* request and leaves Transcript, Context and busy unchanged.
C2_RejectedSubmitIsNoOp ==
    [][ (lastEvent'.op = "submit" /\ (loading \/ Trim(question) = <<>>))
            => /\ ~lastEvent'.sent
               /\ UNCHANGED <<history, conversationHistory, loading, queryRequests>>
      ]_vars

\* C2 witness: a submit of a non-blank question was attempted while busy and
\* dropped.
C2_Witness ==
    /\ lastEvent = [op |-> "submit", sent |-> FALSE]
    /\ loading
    /\ Trim(question) # <<>>

\* C3: at most one query request is in flight in every reachable state.
C3_AtMostOneInFlight == Len(queryRequests) <= 1

\* C3 witness: the conversation was reset while a request was outstanding,
\* a second submit was attempted and dropped; one request is in flight.
C3_Witness ==
    /\ lastEvent = [op |-> "submit", sent |-> FALSE]
    /\ Len(queryRequests) = 1
    /\ history = <<>>
    /\ Trim(question) # <<>>

\* C4: a reset, and any step that shortens the Transcript or the Context,
\* leaves both empty.
C4_ResetClearsBoth ==
    [][ (\/ lastEvent'.op = "reset"
         \/ Len(history') < Len(history)
         \/ Len(conversationHistory') < Len(conversationHistory))
            => (history' = <<>> /\ conversationHistory' = <<>>)
      ]_vars

\* C4 witness: a reset has just cleared a non-empty Transcript and a
\* non-empty Context.
C4_Witness ==
    /\ lastEvent.op = "reset"
    /\ lastEvent.cleared[1] > 0
    /\ lastEvent.cleared[2] > 0
    /\ history = <<>>
    /\ conversationHistory = <<>>

\* C5: a cycle whose answer entry carries an error message leaves the
\* Context as it was.
C5_ErrorLeavesContext ==
    [][ (lastEvent'.op = "queryDone" /\ Truthy(Field(Last(history'), "error")))
            => conversationHistory' = conversationHistory
      ]_vars

\* The response of the settled request was taken by the try block.
Answered(outcome) == outcome.kind = "fulfilled" /\ outcome.body.def

\* C13: a response that settles after a reset (the Transcript is empty while
\* the request is in flight) is applied all the same: its answer entry
\* becomes the only entry of the Transcript, and when the try block took it
\* the Context becomes the pair of that turn.
C13_LateResponseApplied ==
    [][ (lastEvent'.op = "queryDone" /\ history = <<>>)
            => /\ Len(history') = 1
               /\ history'[1].type = "answer"
               /\ conversationHistory' =
                      IF Answered(lastEvent'.outcome)
                      THEN ContextTurns(queryRequests[1].question,
                                        lastEvent'.outcome.body.val.sql)
                      ELSE <<>>
      ]_vars

\* C13 witness: the Transcript is one answer entry without its question and
\* the Context holds the pair of the cleared turn.
C13_Witness ==
    /\ lastEvent.op = "queryDone"
    /\ Answered(lastEvent.outcome)
    /\ Len(history) = 1
    /\ history[1].type = "answer"
    /\ Len(conversationHistory) = 2
    /\ conversationHistory[1].content = history[1].question

\* C14: no answer entry of the Transcript carries both a result set and an
\* error message.
C14_ResultOrError ==
    \A n \in 1..Len(history) :
        history[n].type = "answer"
            => ~(Field(history[n], "data").def
                 /\ Truthy(Field(history[n], "error")))

\* A 2xx response whose body is null or lacks sql, data or columns.
Malformed(outcome) ==
    /\ outcome.kind = "fulfilled"
    /\ \/ ~outcome.body.def
       \/ ~outcome.body.val.sql.def
       \/ ~outcome.body.val.data.def
       \/ ~outcome.body.val.columns.def

\* C15: a 2xx response with a malformed body ends the cycle as a failure:
\* the appended answer entry carries an error message and nothing else, the
\* Context stays and loading is cleared.
C15_MalformedIsFailure ==
    [][ (lastEvent'.op = "queryDone" /\ Malformed(lastEvent'.outcome))
            => /\ Truthy(Field(Last(history'), "error"))
               /\ ~Field(Last(history'), "data").def
               /\ ~Field(Last(history'), "sql").def
               /\ conversationHistory' = conversationHistory
               /\ ~loading'
      ]_vars

\* C16: a query answered without an error appends to the Context exactly the
\* user turn with the submitted question as it was typed, followed by the
\* assistant turn made of that question and the generated query; whatever
\* the rows and columns are.
C16_ContextPair ==
    [][ (/\ lastEvent'.op = "queryDone"
         /\ Answered(lastEvent'.outcome)
         /\ ~Truthy(lastEvent'.outcome.body.val.error))
            => LET q   == queryRequests[1].question
                   sql == lastEvent'.outcome.body.val.sql
               IN conversationHistory' =
                      conversationHistory
                      \o << [role |-> "user", content |-> q],
                            [role |-> "assistant",
                             content |->
                                 <<"I searched for: ">> \o q
                                 \o <<". The SQL query was: ",
                                      IF sql.def THEN sql.val
                                                 ELSE "undefined">>] >>
      ]_vars

\* C16 witness: a query with surrounding blanks was answered with zero rows
\* and the Context holds its pair.
C16_Witness ==
    /\ lastEvent.op = "queryDone"
    /\ Answered(lastEvent.outcome)
    /\ lastEvent.outcome.body.val.data = Some(<<>>)
    /\ ~Truthy(lastEvent.outcome.body.val.error)
    /\ Len(conversationHistory) = 2
    /\ conversationHistory[1] = [role |-> "user", content |-> <<" ", "milk", " ">>]

\* C17: the message stored by the catch block is the server detail when the
\* error response has a non-empty one, else the non-empty description of
\* the error, else 'Failed to process query'; it is never empty.
C17_ErrorPreference ==
    (lastEvent.op = "queryDone" /\ ~Answered(lastEvent.outcome))
        => LET error == CaughtError(lastEvent.outcome)
               stored == Field(Last(history), "error")
           IN /\ stored.def
              /\ stored.val # ""
              /\ stored.val =
                    IF error.detail.def /\ error.detail.val # ""
                    THEN error.detail.val
                    ELSE IF error.message.def /\ error.message.val # ""
                    THEN error.message.val
                    ELSE "Failed to process query"

\* C17 witness: a request was rejected with an empty detail and the entry
\* shows the description of the error.
C17_Witness ==
    /\ lastEvent.op = "queryDone"
    /\ lastEvent.outcome.kind = "rejected"
    /\ lastEvent.outcome.detail = Some("")
    /\ Last(history).error = Some("Request failed with status code 400")

\* The turns of the answer entries of h that carry no error message.
RECURSIVE TurnsOfSuccesses(_)
TurnsOfSuccesses(h) ==
    IF h = <<>> THEN <<>>
    ELSE LET e == Last(h)
             rest == TurnsOfSuccesses(SubSeq(h, 1, Len(h) - 1))
         IN IF e.type = "answer" /\ ~Truthy(Field(e, "error"))
            THEN rest \o ContextTurns(e.question, e.sql)
            ELSE rest

\* C20: the request sent by a submit carries the Context of that moment as
\* its conversation_history, and that Context is made of the pairs of the
\* turns answered without an error, in order, and of nothing else.
C20_RequestCarriesContext ==
    [][ (lastEvent'.op = "submit" /\ lastEvent'.sent)
            => /\ Last(queryRequests').conversation_history = conversationHistory
               /\ conversationHistory = TurnsOfSuccesses(history)
      ]_vars

\* C23: loading is true exactly while a query request is in flight, and a
\* reset changes neither loading nor the request in flight.
C23_BusyIffInFlight ==
    /\ [](loading <=> (queryRequests # <<>>))
    /\ [][ lastEvent'.op = "reset" => UNCHANGED <<loading, queryRequests>> ]_vars

\* C23 witness: the conversation was reset while a request was in flight;
\* loading is still true.
C23_Witness ==
    /\ lastEvent.op = "reset"
    /\ loading
    /\ Len(queryRequests) = 1

\* The number of answer entries of the Transcript h.
Answers(h) == Cardinality({n \in 1..Len(h) : h[n].type = "answer"})

\* C24: the Context has even length, its turns are user, assistant, user,
\* ..., and it holds at most two turns per answer entry of the Transcript.
C24_ContextShape ==
    /\ Len(conversationHistory) % 2 = 0
    /\ \A n \in 1..Len(conversationHistory) :
           conversationHistory[n].role =
               IF n % 2 = 1 THEN "user" ELSE "assistant"
    /\ Len(conversationHistory) <= 2 * Answers(history)

\* C24 witness: a response arrived after a reset and the next question was
\* submitted: the Transcript starts with the answer and the Context holds
\* its pair.
C24_Witness ==
    /\ lastEvent = [op |-> "submit", sent |-> TRUE]
    /\ Len(history) = 2
    /\ history[1].type = "answer"
    /\ Len(conversationHistory) = 2

\* C25: no two adjacent entries of the Transcript are of the same kind; a
\* Transcript that starts with an answer got it from a response that found
\* the Transcript emptied by a reset; and a response that finds the
\* Transcript not empty puts its answer right after the question entry of
\* its own submit.
C25_TranscriptAlternates ==
    /\ [](\A n \in 1..(Len(history) - 1) : history[n].type # history[n + 1].type)
    /\ [][ /\ (history' # <<>> /\ history'[1].type = "answer")
               => \/ (history # <<>> /\ history[1].type = "answer")
                  \/ (lastEvent'.op = "queryDone" /\ history = <<>>)
           /\ (lastEvent'.op = "queryDone" /\ history # <<>>)
               => /\ Last(history) = QuestionEntry(queryRequests[1].question)
                  /\ Len(history') = Len(history) + 1
                  /\ SubSeq(history', 1, Len(history)) = history
                  /\ Last(history').type = "answer"
      ]_vars

\* C25 witness: two full turns without a reset in between.
C25_Witness ==
    /\ lastEvent.op = "queryDone"
    /\ Len(history) = 4
    /\ history[1].type = "question"
    /\ history[2].type = "answer"
    /\ history[3].type = "question"
    /\ history[4].type = "answer"

---------------------------------------------------------------------------
(* Properties of the rendering *)

Digit == {"0", "1", "2", "3", "4", "5", "6", "7", "8", "9"}

\* The number a sequence of digit characters spells.
RECURSIVE NumberOf(_)
NumberOf(s) ==
    IF s = <<>> THEN 0
    ELSE 10 * NumberOf(SubSeq(s, 1, Len(s) - 1))
         + (CHOOSE d \in 0..9 : DigitChar(d) = s[Len(s)])

AllDigits(s) == \A i \in 1..Len(s) : s[i] \in Digit

\* out is digits, a point and two digits, and is the hundredth nearest to
\* the n thousandths.
TwoDigitForm(out, n) ==
    /\ Len(out) >= 4
    /\ out[Len(out) - 2] = "."
    /\ AllDigits(SubSeq(out, 1, Len(out) - 3))
    /\ AllDigits(SubSeq(out, Len(out) - 1, Len(out)))
    /\ LET h == 100 * NumberOf(SubSeq(out, 1, Len(out) - 3))
                + NumberOf(SubSeq(out, Len(out) - 1, Len(out)))
       IN 10 * h - 5 <= n /\ n < 10 * h + 5

\* out is dd/MM/yyyy HH:mm of the date d.
DateForm(out, d) ==
    /\ Len(out) = 16
    /\ out[3] = "/" /\ out[6] = "/" /\ out[11] = " " /\ out[14] = ":"
    /\ AllDigits(SubSeq(out, 1, 2)) /\ NumberOf(SubSeq(out, 1, 2)) = d.day
    /\ AllDigits(SubSeq(out, 4, 5)) /\ NumberOf(SubSeq(out, 4, 5)) = d.month
    /\ AllDigits(SubSeq(out, 7, 10)) /\ NumberOf(SubSeq(out, 7, 10)) = d.year
    /\ AllDigits(SubSeq(out, 12, 13)) /\ NumberOf(SubSeq(out, 12, 13)) = d.hour
    /\ AllDigits(SubSeq(out, 15, 16)) /\ NumberOf(SubSeq(out, 15, 16)) = d.minute

\* C18: every cell of every column gets a text, by this order of cases: a
\* null cell gets 'N/A' in every column; a number in a price column gets its
\* two-digit form; any other value in a timestamp column gets the
\* dd/MM/yyyy HH:mm form of its date, or its own text when it has no date;
\* everything else gets its own text.
C18_FormatCell ==
    /\ ~cellValue.def => ENABLED RenderCell
    /\ cellValue.def =>
         LET out == cellValue.val
         IN IF cell.t = "null" THEN out = <<"N/A">>
            ELSE IF cell.t = "number" /\ colName \in PriceColumns
            THEN TwoDigitForm(out, cell.n)
            ELSE IF colName \in DateColumns /\ NewDate(cell).def
            THEN DateForm(out, NewDate(cell).val)
            ELSE IF cell.t = "string" THEN out = <<cell.v>>
            ELSE out = String(cell)

\* C18 witness: the price 6.9 is shown as 6.90.
C18_Witness ==
    /\ cell = NumberCell(6900)
    /\ colName = "ItemPrice"
    /\ cellValue = Some(<<"6", ".", "9", "0">>)

\* An answer entry without an error message whose result set is empty or
\* missing.
EmptySuccess(item) ==
    /\ item.type = "answer"
    /\ ~Truthy(Field(item, "error"))
    /\ Field(item, "data").def => Len(Field(item, "data").val) = 0

\* C19: every answer entry of the Transcript that is an empty success is
\* rendered as the 'no results' box.
C19_EmptySuccessShown ==
    \A n \in 1..Len(history) :
        EmptySuccess(history[n]) => RenderAnswer(history[n]) = "info-box"

---------------------------------------------------------------------------
(* Properties of the control panel *)

\* C6: the revert timer of a superseded trigger of job kind k never changes
\* status[k].
C6_StaleTimerKeepsStatus ==
    [][ (lastEvent'.op = "revert" /\ lastEvent'.stale)
            => status'[lastEvent'.job] = status[lastEvent'.job]
      ]_vars

\* C7: right after trigger(k), status[k] is running and the message is
\* empty; right after an accepted start, status[k] is succeeded and the
\* message is the server's confirmation; right after a rejected or failed
\* start, status[k] is failed and the message is the server's detail, or the
\* fixed fallback of k when there is no (non-empty) detail.
C7_TriggerOutcome ==
    /\ lastEvent.op = "trigger"
        => (status[lastEvent.job] = "loading" /\ message = "")
    /\ (lastEvent.op = "jobDone" /\ lastEvent.outcome.ok)
        => /\ status[lastEvent.job] = "success"
           /\ message = lastEvent.outcome.message
    /\ (lastEvent.op = "jobDone" /\ ~lastEvent.outcome.ok)
        => /\ status[lastEvent.job] = "error"
           /\ message =
                IF lastEvent.outcome.detail.def
                   /\ lastEvent.outcome.detail.val # ""
                THEN lastEvent.outcome.detail.val
                ELSE IF lastEvent.job = "scrape"
                     THEN "Failed to start scraper"
                     ELSE "Failed to start importer"

\* C7 witness: the start of the scrape was rejected with no detail, and the
\* fallback text is shown with status failed.
C7_Witness ==
    /\ lastEvent.op = "jobDone"
    /\ lastEvent.job = "scrape"
    /\ ~lastEvent.outcome.ok
    /\ ~lastEvent.outcome.detail.def
    /\ status["scrape"] = "error"
    /\ message = "Failed to start scraper"

OtherJob(k) == IF k = "scrape" THEN "import" ELSE "scrape"

\* C8: a trigger of job kind k, the settling of its start request and its
\* revert timer leave the other job kind's status and the Health Snapshot
\* unchanged; the health poll (mount, tick, settling, unmount) leaves both
\* job statuses unchanged.
C8_Independence ==
    [][ /\ lastEvent'.op \in {"trigger", "jobDone", "revert"}
            => /\ status'[OtherJob(lastEvent'.job)]
                    = status[OtherJob(lastEvent'.job)]
               /\ health' = health
        /\ lastEvent'.op \in {"mount", "unmount", "healthTick", "healthDone"}
            => status' = status
      ]_vars

\* C8 witness: the import start has just failed while the scrape is running
\* and the health is known.
C8_Witness ==
    /\ lastEvent.op = "jobDone"
    /\ lastEvent.job = "import"
    /\ status["import"] = "error"
    /\ status["scrape"] = "loading"
    /\ health # None

\* C9: whenever status[k] is not idle it is idle again later, for both job
\* kinds, given that requests settle and timers fire.
C9_EventuallyIdle ==
    /\ (status["scrape"] # "idle") ~> (status["scrape"] = "idle")
    /\ (status["import"] # "idle") ~> (status["import"] = "idle")

\* C9 witness: a trigger was answered, status[k] shows the result and its
\* revert timer is pending.
C9_Witness ==
    /\ status["scrape"] = "success"
    /\ status["import"] = "error"
    /\ Len(revertTimers) = 2

\* C10: right after a health poll settles, the Health Snapshot is ok when
\* the request succeeded and is error with the transport error text when it
\* failed; and checkHealth handles every way the request can settle.
C10_HealthSnapshot ==
    /\ (lastEvent.op = "healthDone" /\ lastEvent.outcome.ok)
        => (health.def /\ health.val.status = "ok")
    /\ (lastEvent.op = "healthDone" /\ ~lastEvent.outcome.ok)
        => health = Some([status |-> "error",
                          error |-> lastEvent.outcome.message])
    /\ healthRequests > 0
        => \A outcome \in HealthOutcomes : ENABLED HealthDone(outcome)

\* C10 witness: a poll has just failed and the snapshot carries its error text.
C10_Witness ==
    /\ lastEvent.op = "healthDone"
    /\ ~lastEvent.outcome.ok
    /\ health.def
    /\ health.val.status = "error"
    /\ health.val.error = "Network Error"

\* C11: a poll that succeeds after a failed one turns the Health Snapshot
\* from error to ok, and while the panel is mounted the interval timer is
\* alive and its tick issues the next poll whatever the earlier polls gave
\* (the model holds a tick back only while MaxHealthInflight polls are in
\* flight).
C11_PollRetried ==
    /\ (/\ lastEvent.op = "healthDone"
        /\ lastEvent.outcome.ok
        /\ lastEvent.before.def
        /\ lastEvent.before.val.status = "error")
        => (health.def /\ health.val.status = "ok")
    /\ phase = "mounted"
        => /\ intervalTimers > 0
           /\ (healthRequests < MaxHealthInflight => ENABLED IntervalTick)

\* C11 witness: a poll has succeeded while the snapshot showed the error of
\* an earlier poll.
C11_Witness ==
    /\ lastEvent.op = "healthDone"
    /\ lastEvent.outcome.ok
    /\ lastEvent.before.def
    /\ lastEvent.before.val.status = "error"
    /\ health.val.status = "ok"
    /\ phase = "mounted"

\* C12: the mount issues one poll and starts the one interval timer; there
\* is exactly one timer while mounted and none before the mount and after
\* the unmount, when no tick can issue a request any more.
C12_TimerLifecycle ==
    /\ intervalTimers <= 1
    /\ (phase = "mounted") <=> (intervalTimers = 1)
    /\ lastEvent.op = "mount" => (healthRequests = 1 /\ intervalTimers = 1)
    /\ phase = "unmounted" => (~ENABLED IntervalTick /\ ~ENABLED Mount)

\* C12 witness: the panel was unmounted while a poll was in flight; that
\* poll has settled and no timer is left.
C12_Witness ==
    /\ phase = "unmounted"
    /\ lastEvent.op = "healthDone"
    /\ healthRequests = 0
    /\ intervalTimers = 0

\* C21: the message box holds what the latest trigger or completion of
\* either job kind wrote: a trigger empties it, a completion (of the latest
\* or of a superseded request) writes the server's confirmation or the
\* failure message, and no other step touches it.
C21_LastWriteWins ==
    [][ message' =
            IF lastEvent'.op = "trigger" THEN ""
            ELSE IF lastEvent'.op = "jobDone"
            THEN IF lastEvent'.outcome.ok
                 THEN lastEvent'.outcome.message
                 ELSE IF lastEvent'.outcome.detail.def
                         /\ lastEvent'.outcome.detail.val # ""
                 THEN lastEvent'.outcome.detail.val
                 ELSE JobFallback(lastEvent'.job)
            ELSE message
      ]_vars

\* C21 witness: the scrape job has failed and still shows it, and the
\* trigger of the import job has emptied the message box.
C21_Witness ==
    /\ lastEvent = [op |-> "trigger", job |-> "import"]
    /\ status["scrape"] = "error"
    /\ status["import"] = "loading"
    /\ message = ""

\* C22: no job kind has more than one start request in flight.
C22_OneStartInFlight ==
    \A k \in Jobs : jobRequests[k].cur + jobRequests[k].old <= 1

\* C26: the callback of a revert timer changes status[k] and nothing else
\* that is shown, and a message once shown is emptied by a trigger only.
C26_RevertKeepsMessage ==
    [][ /\ lastEvent'.op = "revert"
            => /\ message' = message
               /\ health' = health
               /\ status'[OtherJob(lastEvent'.job)]
                      = status[OtherJob(lastEvent'.job)]
               /\ status'[lastEvent'.job] = "idle"
        /\ (message # "" /\ message' = "") => lastEvent'.op = "trigger"
      ]_vars

\* C26 witness: a failed scrape has reverted to idle; no status is failed
\* and the failure message is still shown.
C26_Witness ==
    /\ lastEvent.op = "revert"
    /\ lastEvent.job = "scrape"
    /\ \A k \in Jobs : status[k] = "idle"
    /\ message = JobFallback("scrape")

===========================================================================
